---- MODULE Spec2Model ----
(***************************************************************************)
(* The signaling hub of the p2p service (server/src/main.cpp): the peer    *)
(* directory clients_, the relay graph relayConnections_, the per-socket   *)
(* clientId captured by the socket callbacks, and one action per callback  *)
(* or frame handler.  Every handler runs under the hub's single mutex_, so *)
(* each one is one atomic step.                                            *)
(***************************************************************************)
EXTENDS Integers, Sequences, FiniteSets, TLC

\* ---------------------------------------------------------------- bounds

\* Sockets the hub accepts during one run.
MaxConns == 2

\* Largest value the id counter of generateClientId may reach.
MaxCounter == 1

Conns == 1..MaxConns

\* Frames of one socket that an observer of the forwarding order follows.
MaxSeq == 2

\* Longest byte sequence handed to base64Encode.
MaxBytes == 4

\* ------------------------------------------------------------ identities

\* "peer_" + std::to_string(n).
PeerId(n) == "peer_" \o ToString(n)

\* The secret a hub with a .env file is run with.
Secret == "s3cret"

\* Values relayPassword_ can hold after loadEnvFile: not set, or set.
Passwords == {"", Secret}

\* Payloads of register frames: no id, a free-form id, a peer_<N>-shaped id.
RequestIds == {"", "a", PeerId(1)}

\* Every identity a run can bind, in the order std::string's operator< gives
\* (the order of the peer_<N> ids is the numeric one while N has one digit).
SortedIds == <<"a">> \o [n \in 1..MaxCounter |-> PeerId(n)]

\* The `to` field of inbound frames: every bindable identity, or none.
ToIds == {SortedIds[i] : i \in 1..Len(SortedIds)} \cup {""}

\* The `from` field a sender may put into its own frame.
FromVals == {"", "a"}

\* Opaque payloads of offer/answer/candidate and relay_data frames.
Payloads == {"x", "y"}

\* Payloads of relay_auth frames.
AuthPayloads == {"", Secret, "bad"}

SignalingTypes == {"offer", "answer", "candidate"}

\* Wire tags handleMessage's switch sends to `default`; "unknown" stands for
\* any tag stringToMessageType does not know (it decodes to Error).
OtherTypes == {"connect", "error", "chat", "relay_auth_result", "unknown"}

VARIABLES
    sock,              \* per socket: "none", "open", "closed" (onClosed pending), "done"
    clientId,          \* per socket: the string shared by its callbacks
    clients,           \* clients_: identity -> ClientInfo
    relayConnections,  \* relayConnections_: set of RelayPair
    counter,           \* the static counter of generateClientId
    relayPassword,     \* relayPassword_
    sent,              \* the frames the last callback wrote, in order, with their socket
    threw,             \* whether the last callback ended by an exception
    hist               \* what an observer of one run has recorded (Spec records nothing)

vars == <<sock, clientId, clients, relayConnections, counter, relayPassword,
          sent, threw, hist>>

\* -------------------------------------------------------------- messages

\* A SignalingMessage as written to socket dst by a callback of socket src.
Frame(src, dst, type, from, to, payload) ==
    [src |-> src, dst |-> dst, type |-> type, from |-> from, to |-> to,
     payload |-> payload]

\* ClientInfo.
ClientInfo(ws, id, auth) == [ws |-> ws, id |-> id, relayAuthenticated |-> auth]

\* rtc::WebSocket::send succeeds on an open socket and throws on any other.
CanSend(ws) == sock[ws] = "open"

\* ------------------------------------------------------------- RelayPair

RelayPair(p1, p2) == [peer1 |-> p1, peer2 |-> p2]

\* RelayPair::contains
Contains(pair, id) == pair.peer1 = id \/ pair.peer2 = id

\* RelayPair::getOther
GetOther(pair, id) == IF pair.peer1 = id THEN pair.peer2 ELSE pair.peer1

\* RelayPair::operator==
PairEq(p, q) ==
    \/ (p.peer1 = q.peer1 /\ p.peer2 = q.peer2)
    \/ (p.peer1 = q.peer2 /\ p.peer2 = q.peer1)

\* Position of an identity in std::string order ("" sorts first).
IdRank(id) ==
    IF id = "" THEN 0
    ELSE CHOOSE i \in 1..Len(SortedIds) : SortedIds[i] = id

\* RelayPair::operator<: compares (min, max) of the two endpoints.
PairLess(p, q) ==
    LET a1 == IF IdRank(p.peer1) <= IdRank(p.peer2) THEN IdRank(p.peer1) ELSE IdRank(p.peer2)
        a2 == IF IdRank(p.peer1) <= IdRank(p.peer2) THEN IdRank(p.peer2) ELSE IdRank(p.peer1)
        b1 == IF IdRank(q.peer1) <= IdRank(q.peer2) THEN IdRank(q.peer1) ELSE IdRank(q.peer2)
        b2 == IF IdRank(q.peer1) <= IdRank(q.peer2) THEN IdRank(q.peer2) ELSE IdRank(q.peer1)
    IN  a1 < b1 \/ (a1 = b1 /\ a2 < b2)

\* An insert that compares the two endpoints field by field.
SetInsertOrdered(set, pair) == set \cup {pair}

\* std::set<RelayPair>::insert: no element equivalent under operator< is added twice.
SetInsert(set, pair) ==
    IF \E q \in set : ~PairLess(q, pair) /\ ~PairLess(pair, q)
    THEN set
    ELSE set \cup {pair}

\* An erase that drops every pair sharing an endpoint with the key.
SetEraseTouching(set, pair) ==
    {q \in set : {q.peer1, q.peer2} \cap {pair.peer1, pair.peer2} = {}}

\* std::set<RelayPair>::erase(key): removes the element equivalent to key.
SetErase(set, pair) ==
    {q \in set : PairLess(q, pair) \/ PairLess(pair, q)}

\* The elements of a std::set<RelayPair> in iteration order.
RECURSIVE InOrder(_)
InOrder(set) ==
    IF set = {} THEN <<>>
    ELSE LET first == CHOOSE p \in set : \A q \in set \ {p} : PairLess(p, q)
         IN  <<first>> \o InOrder(set \ {first})

\* ------------------------------------------------------------- directory

\* clients_.count(id) / clients_.find(id) != clients_.end()
Registered(id) == id \in DOMAIN clients

\* clients_[id] = info
Bind(dir, id, info) == (id :> info) @@ dir

\* clients_.erase(id)
Unbind(dir, id) == [k \in DOMAIN dir \ {id} |-> dir[k]]

\* ---------------------------------------------------------------- Init

HubInit ==
    /\ sock = [c \in Conns |-> "none"]
    /\ clientId = [c \in Conns |-> ""]
    /\ clients = <<>>
    /\ relayConnections = {}
    /\ counter = 0
    /\ relayPassword \in Passwords
    /\ sent = <<>>
    /\ threw = FALSE

Init == HubInit /\ hist = <<>>

\* server_->onClient: a new socket, with an empty clientId of its own.
\* Sockets are numbered in the order they are accepted.
NewClient(c) ==
    /\ sock[c] = "none"
    /\ \A d \in Conns : d < c => sock[d] # "none"
    /\ sock' = [sock EXCEPT ![c] = "open"]
    /\ sent' = <<>>
    /\ threw' = FALSE
    /\ UNCHANGED <<clientId, clients, relayConnections, counter, relayPassword>>

\* What a callback that writes `frames` in this order gets onto the wire:
\* the writes before the first one that throws.
RECURSIVE Written(_)
Written(frames) ==
    IF frames = <<>> \/ ~CanSend(Head(frames).dst) THEN <<>>
    ELSE <<Head(frames)>> \o Written(Tail(frames))

\* Whether one of the writes throws (the callback stops there).
Throws(frames) == \E i \in 1..Len(frames) : ~CanSend(frames[i].dst)

\* An inbound frame, as SignalingMessage::deserialize returns it.
Msg(type, from, to, payload) ==
    [type |-> type, from |-> from, to |-> to, payload |-> payload]

\* ------------------------------------------------------------- handlers

\* generateClientId: "peer_" + std::to_string(++counter)
GenerateClientId == PeerId(counter + 1)

\* handleRegister's choice between the requested id and a generated one.
NeedsGenerated(requestedId) == requestedId = "" \/ Registered(requestedId)

AssignedId(requestedId) ==
    IF NeedsGenerated(requestedId) THEN GenerateClientId ELSE requestedId

\* handleRegister
HandleRegister(c, msg) ==
    /\ sock[c] = "open"
    /\ msg.type = "register"
    /\ NeedsGenerated(msg.payload) => counter < MaxCounter
    /\ LET id == AssignedId(msg.payload)
           out == <<Frame(c, c, "register", "", "", id)>>
       IN  /\ counter' = IF NeedsGenerated(msg.payload) THEN counter + 1 ELSE counter
           /\ clientId' = [clientId EXCEPT ![c] = id]
           /\ clients' = Bind(clients, id, ClientInfo(c, id, FALSE))
           /\ sent' = Written(out)
           /\ threw' = Throws(out)
    /\ UNCHANGED <<sock, relayConnections, relayPassword>>

\* The orders in which a range-for over clients_ can visit a set of keys.
Orders(S) ==
    {q \in [1..Cardinality(S) -> S] : \A i, j \in 1..Cardinality(S) : i # j => q[i] # q[j]}

\* A loop that pushes every key, the requester's own included.
PeerListKeysAll(id) == DOMAIN clients

\* handlePeerList's loop: the keys of clients_ other than the requester's id.
PeerListKeys(id) == DOMAIN clients \ {id}

\* handlePeerList
HandlePeerList(c, msg) ==
    /\ sock[c] = "open"
    /\ msg.type = "peer_list"
    /\ \E peers \in Orders(PeerListKeys(clientId[c])) :
         LET out == <<Frame(c, c, "peer_list", "", "", peers)>>
         IN  /\ sent' = Written(out)
             /\ threw' = Throws(out)
    /\ UNCHANGED <<sock, clientId, clients, relayConnections, counter, relayPassword>>

\* The `from` of a forwarded frame: fwdMsg.from = fromId.
StampFrom(fromId, msg) == fromId

\* sendError: an error frame to the directory entry of clientId, if there is one.
SendError(src, id, message, to) ==
    IF Registered(id)
    THEN <<Frame(src, clients[id].ws, "error", "", "", <<message, to>>)>>
    ELSE <<>>

\* handleSignaling (offer, answer, candidate)
SignalingOut(src, fromId, msg) ==
    IF Registered(msg.to)
    THEN <<Frame(src, clients[msg.to].ws, msg.type, StampFrom(fromId, msg), msg.to,
                 msg.payload)>>
    ELSE SendError(src, fromId, "Peer not found: ", msg.to)

HandleSignaling(c, msg) ==
    /\ sock[c] = "open"
    /\ msg.type \in SignalingTypes
    /\ LET out == SignalingOut(c, clientId[c], msg)
       IN  /\ sent' = Written(out)
           /\ threw' = Throws(out)
    /\ UNCHANGED <<sock, clientId, clients, relayConnections, counter, relayPassword>>

\* A comparison that does not look at whether a secret is configured.
AuthSuccessNoEmptyCheck(provided) == provided = relayPassword

\* handleRelayAuth: the success flag and the message of the reply.
AuthSuccess(provided) == relayPassword # "" /\ provided = relayPassword

AuthMessage(provided) ==
    IF relayPassword = "" THEN "Relay is not configured on this server"
    ELSE IF provided = relayPassword THEN "Authentication successful"
    ELSE "Invalid password"

HandleRelayAuth(c, msg) ==
    /\ sock[c] = "open"
    /\ msg.type = "relay_auth"
    /\ LET id == clientId[c]
           out == <<Frame(c, c, "relay_auth_result", "", "",
                          [success |-> AuthSuccess(msg.payload),
                           message |-> AuthMessage(msg.payload)])>>
       IN  /\ clients' = IF AuthSuccess(msg.payload) /\ Registered(id)
                         THEN [clients EXCEPT ![id].relayAuthenticated = TRUE]
                         ELSE clients
           /\ sent' = Written(out)
           /\ threw' = Throws(out)
    /\ UNCHANGED <<sock, clientId, relayConnections, counter, relayPassword>>

\* A first check that looks the sender up and ignores the flag.
SenderRegistered(fromId) == Registered(fromId)

\* handleRelayConnect's first check: the sender's entry exists and is authenticated.
SenderAuthenticated(fromId) ==
    Registered(fromId) /\ clients[fromId].relayAuthenticated

\* handleRelayConnect
HandleRelayConnect(c, msg) ==
    /\ sock[c] = "open"
    /\ msg.type = "relay_connect"
    /\ LET fromId == clientId[c]
           out == IF ~SenderAuthenticated(fromId)
                  THEN SendError(c, fromId, "Not authenticated for relay", "")
                  ELSE IF ~Registered(msg.to)
                  THEN SendError(c, fromId, "Peer not found: ", msg.to)
                  ELSE <<Frame(c, clients[msg.to].ws, "relay_connect",
                               StampFrom(fromId, msg), msg.to, "")>>
       IN  /\ relayConnections' =
                IF SenderAuthenticated(fromId) /\ Registered(msg.to)
                THEN SetInsert(relayConnections, RelayPair(fromId, msg.to))
                ELSE relayConnections
           /\ sent' = Written(out)
           /\ threw' = Throws(out)
    /\ UNCHANGED <<sock, clientId, clients, counter, relayPassword>>

\* A scan that finds a pair whether or not it is there.
HasRelayConnectionAlways(fromId, to) == TRUE

\* handleRelayData's scan of relayConnections_ for the pair.
HasRelayConnection(fromId, to) ==
    \E conn \in relayConnections : PairEq(conn, RelayPair(fromId, to))

\* handleRelayData
RelayDataOut(src, fromId, msg) ==
    IF ~HasRelayConnection(fromId, msg.to)
    THEN SendError(src, fromId, "No relay connection with ", msg.to)
    ELSE IF ~Registered(msg.to)
    THEN SendError(src, fromId, "Peer not found: ", msg.to)
    ELSE <<Frame(src, clients[msg.to].ws, "relay_data", StampFrom(fromId, msg),
                 msg.to, msg.payload)>>

HandleRelayData(c, msg) ==
    /\ sock[c] = "open"
    /\ msg.type = "relay_data"
    /\ LET out == RelayDataOut(c, clientId[c], msg)
       IN  /\ sent' = Written(out)
           /\ threw' = Throws(out)
    /\ UNCHANGED <<sock, clientId, clients, relayConnections, counter, relayPassword>>

\* handleRelayDisconnect
HandleRelayDisconnect(c, msg) ==
    /\ sock[c] = "open"
    /\ msg.type = "relay_disconnect"
    /\ LET fromId == clientId[c]
           out == IF Registered(msg.to)
                  THEN <<Frame(c, clients[msg.to].ws, "relay_disconnect",
                               StampFrom(fromId, msg), msg.to, "")>>
                  ELSE <<>>
       IN  /\ relayConnections' = SetErase(relayConnections, RelayPair(fromId, msg.to))
           /\ sent' = Written(out)
           /\ threw' = Throws(out)
    /\ UNCHANGED <<sock, clientId, clients, counter, relayPassword>>

\* A `default:` branch that answers the sender with an error frame.
HandleOtherAnswered(c, msg) ==
    /\ sock[c] = "open"
    /\ msg.type \in OtherTypes
    /\ sent' = <<Frame(c, c, "error", "", "", <<"Unknown message type", "">>)>>
    /\ threw' = FALSE
    /\ UNCHANGED <<sock, clientId, clients, relayConnections, counter, relayPassword>>

\* handleMessage, `default:` branch: the frame is dropped.
HandleOther(c, msg) ==
    /\ sock[c] = "open"
    /\ msg.type \in OtherTypes
    /\ sent' = <<>>
    /\ threw' = FALSE
    /\ UNCHANGED <<sock, clientId, clients, relayConnections, counter, relayPassword>>

\* A handleMessage without the try block: the exception leaves the callback
\* and the socket is torn down.
HandleMalformedUncaught(c) ==
    /\ sock[c] = "open"
    /\ sock' = [sock EXCEPT ![c] = "closed"]
    /\ sent' = <<>>
    /\ threw' = TRUE
    /\ UNCHANGED <<clientId, clients, relayConnections, counter, relayPassword>>

\* handleMessage on a frame json::parse rejects: the exception is caught and logged.
HandleMalformed(c) ==
    /\ sock[c] = "open"
    /\ sent' = <<>>
    /\ threw' = TRUE
    /\ UNCHANGED <<sock, clientId, clients, relayConnections, counter, relayPassword>>

\* ---------------------------------------------------------------- close

\* The socket closes; its onClosed callback has not run yet.
SocketClose(c) ==
    /\ sock[c] = "open"
    /\ sock' = [sock EXCEPT ![c] = "closed"]
    /\ sent' = <<>>
    /\ threw' = FALSE
    /\ UNCHANGED <<clientId, clients, relayConnections, counter, relayPassword>>

\* removeClient's loop: the pairs that contain id, in iteration order.
ToRemove(id) == SelectSeq(InOrder(relayConnections), LAMBDA conn : Contains(conn, id))

\* A removeClient that pushes a peer_list frame to every other open socket
\* instead of notifying the paired peers.
NotificationsBroadcast(src, id, pairs) ==
    SelectSeq([d \in 1..MaxConns |-> Frame(src, d, "peer_list", "", "", <<>>)],
              LAMBDA f : f.dst # src /\ sock[f.dst] = "open")

\* removeClient's loop: the notification for each such pair whose other end is
\* in the directory.
RECURSIVE Notifications(_, _, _)
Notifications(src, id, pairs) ==
    IF pairs = <<>> THEN <<>>
    ELSE LET otherId == GetOther(Head(pairs), id)
         IN  (IF Registered(otherId)
              THEN <<Frame(src, clients[otherId].ws, "relay_disconnect", id, otherId, "")>>
              ELSE <<>>) \o Notifications(src, id, Tail(pairs))

\* An erase loop that erases nothing.
PairsAfterRemoveNone(id) == relayConnections

\* removeClient: the relay graph after the erase loop.
PairsAfterRemove(id) == {conn \in relayConnections : ~Contains(conn, id)}

\* removeClient: the directory after clients_.erase(clientId).
ClientsAfterRemove(id) == Unbind(clients, id)

\* ws->onClosed: removeClient(*clientId) unless clientId is empty.  A write that
\* throws inside the loop leaves removeClient before anything is erased.
OnClosed(c) ==
    /\ sock[c] = "closed"
    /\ sock' = [sock EXCEPT ![c] = "done"]
    /\ LET id == clientId[c]
           out == IF id = "" THEN <<>> ELSE Notifications(c, id, ToRemove(id))
       IN  /\ sent' = Written(out)
           /\ threw' = Throws(out)
           /\ IF id = "" \/ Throws(out)
              THEN UNCHANGED <<clients, relayConnections>>
              ELSE /\ relayConnections' = PairsAfterRemove(id)
                   /\ clients' = ClientsAfterRemove(id)
    /\ UNCHANGED <<clientId, counter, relayPassword>>

\* ----------------------------------------------------------------- Next

\* The frames a client can send, by wire tag.
RegisterFrames == {Msg("register", "", "", id) : id \in RequestIds}

PeerListFrames == {Msg("peer_list", "", "", "")}

SignalingFrames ==
    {Msg(t, f, to, p) : t \in SignalingTypes, f \in FromVals, to \in ToIds, p \in Payloads}

RelayAuthFrames == {Msg("relay_auth", "", "", p) : p \in AuthPayloads}

RelayConnectFrames == {Msg("relay_connect", f, to, "") : f \in FromVals, to \in ToIds}

RelayDataFrames ==
    {Msg("relay_data", f, to, p) : f \in FromVals, to \in ToIds, p \in Payloads}

RelayDisconnectFrames == {Msg("relay_disconnect", f, to, "") : f \in FromVals, to \in ToIds}

OtherFrames == {Msg(t, "", "", "") : t \in OtherTypes}

Next ==
    \E c \in Conns :
        \/ NewClient(c) /\ UNCHANGED hist
        \/ \E msg \in RegisterFrames : HandleRegister(c, msg) /\ UNCHANGED hist
        \/ \E msg \in PeerListFrames : HandlePeerList(c, msg) /\ UNCHANGED hist
        \/ \E msg \in SignalingFrames : HandleSignaling(c, msg) /\ UNCHANGED hist
        \/ \E msg \in RelayAuthFrames : HandleRelayAuth(c, msg) /\ UNCHANGED hist
        \/ \E msg \in RelayConnectFrames : HandleRelayConnect(c, msg) /\ UNCHANGED hist
        \/ \E msg \in RelayDataFrames : HandleRelayData(c, msg) /\ UNCHANGED hist
        \/ \E msg \in RelayDisconnectFrames : HandleRelayDisconnect(c, msg) /\ UNCHANGED hist
        \/ \E msg \in OtherFrames : HandleOther(c, msg) /\ UNCHANGED hist
        \/ HandleMalformed(c) /\ UNCHANGED hist
        \/ SocketClose(c) /\ UNCHANGED hist
        \/ OnClosed(c) /\ UNCHANGED hist

Spec == Init /\ [][Next]_vars

\* ----------------------------------------------------------- properties

\* The frames written by the last callback.
SentFrames == {sent[i] : i \in 1..Len(sent)}

\* The unordered pair {x, y} is in the relay graph.
InGraph(x, y) == \E p \in relayConnections : {p.peer1, p.peer2} = {x, y}

\* The directory entry a socket registered under is still its own.
OwnsEntry(c) == clientId[c] \in DOMAIN clients /\ clients[clientId[c]].ws = c

\* The relayAuthenticated flag of a socket: the flag of its own ClientInfo.
ConnAuthenticated(c) == OwnsEntry(c) /\ clients[clientId[c]].relayAuthenticated

\* The wire tags the hub forwards with a stamped `from`.
StampedTypes == SignalingTypes \cup {"relay_connect", "relay_data", "relay_disconnect"}

\* C1: no two open sockets have the same assigned identity.
C1_UniqueIdentity ==
    \A c, d \in Conns :
        (c # d /\ sock[c] = "open" /\ sock[d] = "open" /\ clientId[c] # "")
            => clientId[c] # clientId[d]

\* C2: a register frame keeps every directory entry of the other sockets, bound
\* to the same socket, and assigns the requested id when it is non-empty and
\* free, otherwise a generated peer_<counter> id that was not a directory key.
C2_RegisterKeepsOthers ==
    [][\A c \in Conns : \A msg \in RegisterFrames :
          HandleRegister(c, msg) =>
             /\ \A id \in DOMAIN clients :
                   clients[id].ws # c =>
                      id \in DOMAIN clients' /\ clients'[id].ws = clients[id].ws
             /\ IF msg.payload # "" /\ msg.payload \notin DOMAIN clients
                THEN clientId'[c] = msg.payload
                ELSE clientId'[c] = PeerId(counter') /\ clientId'[c] \notin DOMAIN clients]_vars

\* C3: a register frame from a socket that already has an identity changes
\* neither that identity nor the directory, the relay graph or any flag.
C3_RegisterOnce ==
    [][\A c \in Conns : \A msg \in RegisterFrames :
          (HandleRegister(c, msg) /\ clientId[c] # "")
             => UNCHANGED <<clientId, clients, relayConnections>>]_vars

\* C4: a relay_data frame is on the wire only when it was sent by X to Y with
\* the pair {X, Y} in the relay graph as the hub handled it (X the identity of
\* the sending socket), and then it went to the directory entry of Y; the
\* handler does not touch the graph, so the graph read here is the one it saw.
C4_RelayDataOnlyOverPair ==
    \A f \in SentFrames :
        f.type = "relay_data" =>
           /\ f.from = clientId[f.src]
           /\ InGraph(f.from, f.to)
           /\ f.to \in DOMAIN clients
           /\ f.dst = clients[f.to].ws

\* C4 witness: a relay_data frame has just been forwarded over an existing pair.
C4_Witness ==
    \E f \in SentFrames : f.type = "relay_data" /\ InGraph(f.from, f.to)

\* C5: every offer, answer, candidate, relay_connect, relay_data or
\* relay_disconnect the hub forwards for a frame of an open socket carries as
\* `from` the identity registered to that socket (a non-empty directory key
\* bound to it).
C5_FromIsSenderIdentity ==
    \A f \in SentFrames :
        (f.type \in StampedTypes /\ sock[f.src] = "open") =>
           /\ f.from # ""
           /\ f.from \in DOMAIN clients
           /\ clients[f.from].ws = f.src

\* C6: a pair enters the relay graph only through a relay_connect frame whose
\* sending socket has relayAuthenticated = true.
C6_PairsFromAuthenticated ==
    [][/\ (relayConnections' \ relayConnections # {}) =>
             \E c \in Conns : \E msg \in RelayConnectFrames : HandleRelayConnect(c, msg)
       /\ \A c \in Conns : \A msg \in RelayConnectFrames :
             (HandleRelayConnect(c, msg) /\ relayConnections' # relayConnections)
                => ConnAuthenticated(c)]_vars

\* C7: both endpoints of every pair of the relay graph are directory keys.
C7_PairsInDirectory ==
    \A p \in relayConnections : p.peer1 \in DOMAIN clients /\ p.peer2 \in DOMAIN clients

\* C7 witness: the close handler of a registered socket has just removed its
\* pairs and its directory entry, notifying the other endpoint.
C7_Witness ==
    /\ ~threw
    /\ \E f \in SentFrames :
          /\ f.type = "relay_disconnect" /\ sock[f.src] = "done"
          /\ f.from = clientId[f.src] /\ f.from \notin DOMAIN clients

\* C8: a relay_connect from a socket whose relayAuthenticated flag is false
\* leaves the relay graph unchanged and notifies nobody.
C8_UnauthenticatedConnectRejected ==
    [][\A c \in Conns : \A msg \in RelayConnectFrames :
          (HandleRelayConnect(c, msg) /\ ~ConnAuthenticated(c)) =>
             /\ relayConnections' = relayConnections
             /\ \A f \in SentFrames' : f.type # "relay_connect"]_vars

\* The hub rejects the frame for an addressing reason.
Rejected(c, msg) ==
    \/ HandleSignaling(c, msg) /\ msg.to \notin DOMAIN clients
    \/ HandleRelayConnect(c, msg)
         /\ (~SenderAuthenticated(clientId[c]) \/ msg.to \notin DOMAIN clients)
    \/ HandleRelayData(c, msg)
         /\ (~InGraph(clientId[c], msg.to) \/ msg.to \notin DOMAIN clients)

\* C9: a frame rejected for an addressing reason gets exactly one write, the
\* error envelope to the socket that sent the frame.
C9_RejectionReachesSender ==
    [][\A c \in Conns :
          \A msg \in SignalingFrames \cup RelayConnectFrames \cup RelayDataFrames :
             Rejected(c, msg) =>
                /\ Len(sent') = 1
                /\ sent'[1].type = "error"
                /\ sent'[1].dst = c]_vars

\* C10: no directory entry, and so no endpoint of a pair, belongs to a socket
\* whose close handler has run.
C10_ClosedSocketsEvicted ==
    /\ \A id \in DOMAIN clients : sock[clients[id].ws] # "done"
    /\ \A p \in relayConnections : \A id \in {p.peer1, p.peer2} :
          id \in DOMAIN clients => sock[clients[id].ws] # "done"

\* C11: when the close handler of a socket bound to X runs, every identity Y
\* that shared a pair {X, Y} with X and is bound to another, open socket is
\* written exactly one relay_disconnect with from = X by that handler, and no
\* relay_disconnect goes to an identity that shared no pair with X.
C11_CloseNotifiesPairedPeers ==
    [][\A c \in Conns :
          (OnClosed(c) /\ clientId[c] # "") =>
             LET X == clientId[c]
                 Paired == {GetOther(p, X) : p \in {q \in relayConnections : Contains(q, X)}}
                 Got(d, Y) == {i \in 1..Len(sent') :
                                  /\ sent'[i].dst = d /\ sent'[i].type = "relay_disconnect"
                                  /\ sent'[i].from = X /\ sent'[i].to = Y}
             IN  /\ \A d \in Conns \ {c} :
                       sock[d] = "open" =>
                          \A Y \in DOMAIN clients :
                             clients[Y].ws = d =>
                                IF Y \in Paired
                                THEN Cardinality(Got(d, Y)) = 1
                                ELSE Got(d, Y) = {}
                 /\ \A i \in 1..Len(sent') : sent'[i].to \in Paired]_vars

\* C12: once the close handler of a socket has run, no handler of a later
\* offer, answer, candidate or relay_data frame addresses a write to that
\* socket, whatever identity the frame names.
C12_NoWriteToClosedSocket ==
    [][\A c \in Conns :
          /\ \A msg \in SignalingFrames :
                HandleSignaling(c, msg) =>
                   \A i \in 1..Len(SignalingOut(c, clientId[c], msg)) :
                      sock[SignalingOut(c, clientId[c], msg)[i].dst] # "done"
          /\ \A msg \in RelayDataFrames :
                HandleRelayData(c, msg) =>
                   \A i \in 1..Len(RelayDataOut(c, clientId[c], msg)) :
                      sock[RelayDataOut(c, clientId[c], msg)[i].dst] # "done"]_vars

\* C13: the relay graph holds at most one pair per unordered {a, b}, however
\* often and in whichever direction relay_connect was accepted for it, and
\* after a relay_disconnect that an endpoint sent naming the other one the
\* pair {from, to} is gone.
C13_PairsUnorderedOnce ==
    /\ \A p, q \in relayConnections :
          {p.peer1, p.peer2} = {q.peer1, q.peer2} => p = q
    /\ \A f \in SentFrames :
          (f.type = "relay_disconnect" /\ sock[f.src] = "open") =>
             \A p \in relayConnections : {p.peer1, p.peer2} # {f.from, f.to}

\* C13 witness: relay_connect(b, a) has just been accepted while the graph
\* already held the pair as (a, b); the graph still holds that one pair.
C13_Witness ==
    \E f \in SentFrames :
        /\ f.type = "relay_connect" /\ f.from # f.to
        /\ relayConnections = {RelayPair(f.to, f.from)}

\* C14: a socket whose relayAuthenticated flag is true keeps it true for as
\* long as the socket is open, whatever frame the hub handles.
C14_FlagStaysSet ==
    [][\A c \in Conns :
          (ConnAuthenticated(c) /\ sock'[c] = "open") => ConnAuthenticated(c)']_vars

\* C15: when the hub has just answered a relay_auth with success = true, the
\* socket it answered passes the authentication check of relay_connect.
C15_SuccessSetsFlag ==
    \A f \in SentFrames :
        (f.type = "relay_auth_result" /\ f.payload.success)
            => SenderAuthenticated(clientId[f.dst])

\* C16: on a hub run without a relay secret every relay_auth reply says
\* success = false with the message "Relay is not configured on this server",
\* no directory entry has its flag set, and the relay graph is empty.
C16_NoSecretNoRelay ==
    relayPassword = "" =>
       /\ \A f \in SentFrames :
             f.type = "relay_auth_result" =>
                /\ ~f.payload.success
                /\ f.payload.message = "Relay is not configured on this server"
       /\ \A id \in DOMAIN clients : ~clients[id].relayAuthenticated
       /\ relayConnections = {}

\* C16 witness: a registered socket has just been answered on a hub without a
\* secret.
C16_Witness ==
    /\ relayPassword = ""
    /\ \E f \in SentFrames :
          f.type = "relay_auth_result" /\ clientId[f.dst] \in DOMAIN clients

\* C17: a peer_list reply is the only write of its handler, goes to the socket
\* that asked, and lists every directory key other than the asking socket's
\* identity exactly once and nothing else.
C17_PeerListIsDirectoryMinusSelf ==
    \A f \in SentFrames :
        f.type = "peer_list" =>
           /\ Len(sent) = 1
           /\ f.dst = f.src
           /\ {f.payload[i] : i \in 1..Len(f.payload)} = DOMAIN clients \ {clientId[f.src]}
           /\ \A i, j \in 1..Len(f.payload) : f.payload[i] = f.payload[j] => i = j

\* C17 witness: a registered socket has just been sent a list that names
\* another peer while the directory also holds its own identity.
C17_Witness ==
    \E f \in SentFrames :
        /\ f.type = "peer_list" /\ Len(f.payload) > 0
        /\ clientId[f.src] \in DOMAIN clients

\* C18: the reply to a peer_list request names every directory entry that is
\* bound to a socket other than the one that asked.
C18_ListReachesOtherSockets ==
    \A f \in SentFrames :
        f.type = "peer_list" =>
           \A id \in DOMAIN clients :
              clients[id].ws # f.dst =>
                 \E i \in 1..Len(f.payload) : f.payload[i] = id

\* ------------------------------------------------- one relay run, observed

\* An observer follows one socket through the scenario "authenticate, then
\* relay_connect to a registered peer, then relay_data to it".  hist.stage is
\* 0 before the hub has answered a relay_auth with success, 1 after that
\* (for socket hist.a), 2 after the hub has handled a relay_connect of hist.a
\* to a peer hist.b registered on another, open socket hist.bws, 3 after it
\* has handled a relay_data of hist.a to hist.b, and 4 once hist.a or hist.bws
\* has closed or sent relay_disconnect.  hist.connect and hist.data record
\* whether the handler wrote the forward to hist.bws.  The observed run ends
\* at stage 3 or 4.
RunIdle ==
    [stage |-> 0, a |-> 0, aid |-> "", b |-> "", bws |-> 0,
     connect |-> FALSE, data |-> FALSE]

InitRelayRun == HubInit /\ hist = RunIdle

RunAfterAuth(c, msg) ==
    IF hist.stage = 0 /\ \E f \in SentFrames' :
                            f.dst = c /\ f.type = "relay_auth_result" /\ f.payload.success
    THEN [hist EXCEPT !.stage = 1, !.a = c]
    ELSE hist

RunAfterConnect(c, msg) ==
    IF /\ hist.stage = 1 /\ c = hist.a /\ clientId[c] # ""
       /\ Registered(msg.to) /\ clients[msg.to].ws # c /\ CanSend(clients[msg.to].ws)
    THEN [hist EXCEPT !.stage = 2, !.aid = clientId[c], !.b = msg.to,
                      !.bws = clients[msg.to].ws,
                      !.connect = \E f \in SentFrames' :
                                     /\ f.dst = clients[msg.to].ws
                                     /\ f.type = "relay_connect" /\ f.from = clientId[c]]
    ELSE hist

RunAfterData(c, msg) ==
    IF hist.stage = 2 /\ c = hist.a /\ msg.to = hist.b
    THEN [hist EXCEPT !.stage = 3,
                      !.data = \E f \in SentFrames' :
                                  /\ f.dst = hist.bws /\ f.type = "relay_data"
                                  /\ f.from = hist.aid /\ f.payload = msg.payload]
    ELSE hist

RunAfterLeave(c) ==
    IF hist.stage \in 1..2 /\ (c = hist.a \/ (hist.stage = 2 /\ c = hist.bws))
    THEN [hist EXCEPT !.stage = 4]
    ELSE hist

\* The frames of an observed run: the `from` a sender writes is overwritten
\* by the hub, so one value of it is enough here.
RunFrames(frames) == {msg \in frames : msg.from = ""}

NextRelayRun ==
    \E c \in Conns :
        \/ hist.stage < 3 /\ NewClient(c) /\ UNCHANGED hist
        \/ \E msg \in RegisterFrames :
              hist.stage < 3 /\ HandleRegister(c, msg) /\ UNCHANGED hist
        \/ \E msg \in RelayAuthFrames :
              hist.stage < 3 /\ HandleRelayAuth(c, msg) /\ hist' = RunAfterAuth(c, msg)
        \/ \E msg \in RunFrames(RelayConnectFrames) :
              hist.stage < 3 /\ HandleRelayConnect(c, msg) /\ hist' = RunAfterConnect(c, msg)
        \/ \E msg \in RunFrames(RelayDataFrames) :
              hist.stage < 3 /\ HandleRelayData(c, msg) /\ hist' = RunAfterData(c, msg)
        \/ \E msg \in RunFrames(RelayDisconnectFrames) :
              hist.stage < 3 /\ HandleRelayDisconnect(c, msg) /\ hist' = RunAfterLeave(c)
        \/ hist.stage < 3 /\ SocketClose(c) /\ hist' = RunAfterLeave(c)
        \/ hist.stage < 3 /\ OnClosed(c) /\ UNCHANGED hist

SpecRelayRun == InitRelayRun /\ [][NextRelayRun]_vars

\* C19: a socket A that the hub has answered relay_auth with success and that
\* then sends relay_connect to a peer B registered on another open socket and
\* relay_data to B, with neither socket closing or sending relay_disconnect in
\* between, has both frames forwarded to B's socket with from = A, the
\* relay_data with the payload A sent.
C19_RelayRunDelivered ==
    /\ hist.stage \in 2..3 => hist.connect
    /\ hist.stage = 3 => hist.data

\* ---------------------------------------------- forwarding order, observed

\* An observer numbers the offer and relay_data frames the hub handles from
\* each socket (hist.n) and keeps, in hist.wire, the forwards in the order
\* the handlers wrote them: source socket, destination socket, wire tag and
\* the number of the frame at its source.  The observation starts once two
\* peers are registered and joined by a pair.

\* The hub after: socket 1 registers "a" and authenticates, socket 2 registers
\* with no id, socket 1 sends relay_connect to it, and a frame without reply.
OrderStart ==
    /\ sock = [c \in Conns |-> IF c <= 2 THEN "open" ELSE "none"]
    /\ clientId = [c \in Conns |-> IF c = 1 THEN "a" ELSE IF c = 2 THEN PeerId(1) ELSE ""]
    /\ clients = ("a" :> ClientInfo(1, "a", TRUE)) @@ (PeerId(1) :> ClientInfo(2, PeerId(1), FALSE))
    /\ relayConnections = {RelayPair("a", PeerId(1))}
    /\ counter = 1
    /\ relayPassword = Secret
    /\ sent = <<>>
    /\ threw = FALSE

InitOrder == OrderStart /\ hist = [wire |-> <<>>, n |-> [c \in Conns |-> 0]]

\* The forwards among the frames a handler wrote for its k-th frame of socket c.
RECURSIVE Forwards(_, _, _, _)
Forwards(frames, c, type, k) ==
    IF frames = <<>> THEN <<>>
    ELSE (IF Head(frames).type = type
          THEN <<[src |-> c, dst |-> Head(frames).dst, type |-> type, k |-> k]>>
          ELSE <<>>) \o Forwards(Tail(frames), c, type, k)

\* A write that overtakes the ones made before it.
WireSendFirst(wire, entries) == entries \o wire

\* ws->send: the frame goes onto the wire after those already written.
WireSend(wire, entries) == wire \o entries

\* The observer's record after the handler of a frame of socket c has run.
Observed(c, msg) ==
    [wire |-> WireSend(hist.wire, Forwards(sent', c, msg.type, hist.n[c] + 1)),
     n |-> [hist.n EXCEPT ![c] = @ + 1]]

OrderOffers == {Msg("offer", "", to, "x") : to \in ToIds}

OrderData == {Msg("relay_data", "", to, "x") : to \in ToIds}

NextOrder ==
    \E c \in Conns :
        \/ \E msg \in RunFrames(RelayDisconnectFrames) :
              HandleRelayDisconnect(c, msg) /\ UNCHANGED hist
        \/ \E msg \in OrderOffers :
              hist.n[c] < MaxSeq /\ HandleSignaling(c, msg) /\ hist' = Observed(c, msg)
        \/ \E msg \in OrderData :
              hist.n[c] < MaxSeq /\ HandleRelayData(c, msg) /\ hist' = Observed(c, msg)
        \/ SocketClose(c) /\ UNCHANGED hist
        \/ OnClosed(c) /\ UNCHANGED hist

SpecOrder == InitOrder /\ [][NextOrder]_vars

C21_RegisterReplyFirst ==
    \A f \in SentFrames :
        f.type # "register" => clientId[f.dst] # ""

\* C22: handling a frame that does not parse changes neither the directory
\* (entries and flags), the relay graph, any clientId nor any socket, writes
\* no frame, and leaves the sending socket open, so every handler is enabled
\* for it exactly as before.
C22_MalformedDropped ==
    [][\A c \in Conns :
          HandleMalformed(c) =>
             /\ UNCHANGED <<clients, relayConnections, clientId, counter, sock>>
             /\ sent' = <<>>
             /\ sock'[c] = "open"]_vars

\* C22 witness: a frame that did not parse has just been dropped (no socket
\* is closed, so no write can have thrown) on a hub with a registered peer.
C22_Witness ==
    /\ threw /\ sent = <<>>
    /\ \A c \in Conns : sock[c] \in {"open", "none"}
    /\ clients # <<>>

\* ------------------------------------------------------------------ base64

\* The variables of the hub, which the codec does not touch.
hubVars == <<sock, clientId, clients, relayConnections, counter, relayPassword,
             sent, threw>>

\* Values of the bytes handed to base64Encode: all bits clear, all set, the
\* alternating patterns, and values around the sign bit and the low bits.
ByteValues == {0, 1, 2, 85, 127, 128, 170, 255}

\* The byte sequences of length 0..MaxBytes over ByteValues, and every
\* single byte.
ByteSeqs == UNION {[1..n -> ByteValues] : n \in 0..MaxBytes} \cup [1..1 -> 0..255]

\* chars[v] of base64Encode, as the character's ASCII code.
B64Char(v) ==
    IF v < 26 THEN 65 + v
    ELSE IF v < 52 THEN 97 + (v - 26)
    ELSE IF v < 62 THEN 48 + (v - 52)
    ELSE IF v = 62 THEN 43
    ELSE 47

\* '='
PadChar == 61

\* decodeTable[c] of base64Decode.
DecodeTable(c) ==
    IF c = 43 THEN 62
    ELSE IF c = 47 THEN 63
    ELSE IF c >= 48 /\ c <= 57 THEN c - 48 + 52
    ELSE IF c >= 65 /\ c <= 90 THEN c - 65
    ELSE IF c >= 97 /\ c <= 122 THEN c - 97 + 26
    ELSE -1

\* base64Encode's loop: four characters for every group of up to three bytes
\* (missing bytes read as 0).
RECURSIVE EncodeGroups(_)
EncodeGroups(data) ==
    IF data = <<>> THEN <<>>
    ELSE LET octet_a == data[1]
             octet_b == IF Len(data) >= 2 THEN data[2] ELSE 0
             octet_c == IF Len(data) >= 3 THEN data[3] ELSE 0
             triple == octet_a * 65536 + octet_b * 256 + octet_c
             rest == IF Len(data) > 3 THEN SubSeq(data, 4, Len(data)) ELSE <<>>
         IN  <<B64Char((triple \div 262144) % 64), B64Char((triple \div 4096) % 64),
               B64Char((triple \div 64) % 64), B64Char(triple % 64)>>
             \o EncodeGroups(rest)

\* An encoder that leaves the characters of the missing bytes in place.
Base64EncodeNoPad(data) == EncodeGroups(data)

\* base64Encode: the loop, then '=' over the last one or two characters.
Base64Encode(data) ==
    LET result == EncodeGroups(data)
        mod == Len(data) % 3
    IN  IF mod = 1
        THEN [result EXCEPT ![Len(result)] = PadChar, ![Len(result) - 1] = PadChar]
        ELSE IF mod = 2
        THEN [result EXCEPT ![Len(result)] = PadChar]
        ELSE result

\* 2^n for the shifts of base64Decode.
RECURSIVE Pow2(_)
Pow2(n) == IF n = 0 THEN 1 ELSE 2 * Pow2(n - 1)

\* base64Decode's loop from character i on, with the uint32_t val, the int
\* valb and the bytes pushed so far.  val is kept modulo 2^24: the shift of
\* the uint32_t drops bits from 32 up, and the loop reads bits 0..11 only
\* (valb is at most 4 when a byte is taken), which depend on no higher bit.
RECURSIVE DecodeLoop(_, _, _, _, _)
DecodeLoop(encoded, i, val, valb, result) ==
    IF i > Len(encoded) \/ encoded[i] = PadChar THEN result
    ELSE IF DecodeTable(encoded[i]) = -1
    THEN DecodeLoop(encoded, i + 1, val, valb, result)
    ELSE LET val2 == (val * 64 + DecodeTable(encoded[i])) % 16777216
             valb2 == valb + 6
         IN  IF valb2 >= 0
             THEN DecodeLoop(encoded, i + 1, val2, valb2 - 8,
                             Append(result, (val2 \div Pow2(valb2)) % 256))
             ELSE DecodeLoop(encoded, i + 1, val2, valb2, result)

\* base64Decode
Base64Decode(encoded) == DecodeLoop(encoded, 1, 0, -8, <<>>)

\* sendBinaryViaRelay: the RelayDataMessage record built for the bytes.
RelayDataRecord(data) == [is_binary |-> TRUE, data |-> Base64Encode(data)]

\* handleRelayData of the client: the bytes handed to the binary callback.
ReceivedBytes(dataMsg) == Base64Decode(dataMsg.data)

\* A sender is handed some bytes.
InitBase64 ==
    /\ HubInit
    /\ \E b \in ByteSeqs :
          hist = [stage |-> "bytes", bytes |-> b, record |-> <<>>, received |-> <<>>]

\* sendBinaryViaRelay builds the record that goes into the relay_data payload.
SendBinaryViaRelay ==
    /\ hist.stage = "bytes"
    /\ hist' = [hist EXCEPT !.stage = "sent", !.record = RelayDataRecord(hist.bytes)]
    /\ UNCHANGED hubVars

\* The receiving client decodes the record it was forwarded.
ReceiveBinary ==
    /\ hist.stage = "sent"
    /\ hist' = [hist EXCEPT !.stage = "received", !.received = ReceivedBytes(hist.record)]
    /\ UNCHANGED hubVars

NextBase64 == SendBinaryViaRelay \/ ReceiveBinary

SpecBase64 == InitBase64 /\ [][NextBase64]_vars

\* C23: the bytes a receiver decodes from the data field of a binary
\* relay_data record are the bytes the sender passed to sendBinaryViaRelay.
C23_Base64RoundTrip ==
    hist.stage = "received" => hist.received = hist.bytes

\* C23 witness: a sequence whose length is 1 modulo 3 (two '=' in the record)
\* and that has a byte with the top bit set has been sent and decoded.
C23_Witness ==
    /\ hist.stage = "received"
    /\ Len(hist.bytes) % 3 = 1
    /\ \E i \in 1..Len(hist.bytes) : hist.bytes[i] >= 128
    /\ hist.record.data[Len(hist.record.data) - 1] = PadChar

\* ----------------------------------------------------------------- decoder

\* The 13 wire tags, each with the MessageType stringToMessageType returns.
TagTable ==
    [register |-> "Register", peer_list |-> "PeerList", offer |-> "Offer",
     answer |-> "Answer", candidate |-> "Candidate", connect |-> "Connect",
     error |-> "Error", chat |-> "Chat", relay_auth |-> "RelayAuth",
     relay_auth_result |-> "RelayAuthResult", relay_connect |-> "RelayConnect",
     relay_data |-> "RelayData", relay_disconnect |-> "RelayDisconnect"]

WireTags == DOMAIN TagTable

\* stringToMessageType: the tag's MessageType, Error for any other string.
StringToMessageType(str) == IF str \in WireTags THEN TagTable[str] ELSE "Error"

\* A member of a JSON object: absent, a string, or a value of another type.
JAbsent == [kind |-> "absent"]

JString(s) == [kind |-> "string", s |-> s]

JNumber == [kind |-> "number"]

\* json::value(key, default) with a std::string default: the default when the
\* key is absent, the string when it holds one, and a type_error otherwise.
ValueThrows(member) == member.kind = "number"

Value(member, default) == IF member.kind = "string" THEN member.s ELSE default

\* Parsed JSON documents a frame can hold: an object with any of the four
\* members, or a document that is not an object (value() throws on it).
JsonObjects ==
    [type : {JAbsent, JNumber} \cup {JString(s) : s \in {"", "offer", "relay_data", "bogus"}},
     from : {JAbsent} \cup {JString(s) : s \in {"", "a"}},
     to : {JAbsent} \cup {JString(s) : s \in {"", "b"}},
     payload : {JAbsent, JNumber} \cup {JString(s) : s \in {"", "p"}}]

JsonDocuments == [object : {TRUE}, members : JsonObjects] \cup {[object |-> FALSE]}

\* SignalingMessage::fromJson: the envelope, or the exception it ends with.
FromJson(j) ==
    IF ~j.object THEN [throws |-> TRUE]
    ELSE IF \E k \in {"type", "from", "to", "payload"} : ValueThrows(j.members[k])
    THEN [throws |-> TRUE]
    ELSE [throws |-> FALSE,
          type |-> StringToMessageType(Value(j.members.type, "error")),
          from |-> Value(j.members.from, ""),
          to |-> Value(j.members.to, ""),
          payload |-> Value(j.members.payload, "")]

\* A frame has been parsed by json::parse.
InitDecode ==
    /\ HubInit
    /\ \E j \in JsonDocuments : hist = [stage |-> "parsed", j |-> j, msg |-> <<>>]

\* SignalingMessage::deserialize hands the document to fromJson.
Deserialize ==
    /\ hist.stage = "parsed"
    /\ hist' = [hist EXCEPT !.stage = "decoded", !.msg = FromJson(hist.j)]
    /\ UNCHANGED hubVars

NextDecode == Deserialize

SpecDecode == InitDecode /\ [][NextDecode]_vars

\* C24: decoding a frame whose type is a string that is none of the 13 wire
\* tags (its other members strings or absent) does not throw and gives an
\* envelope with the Error tag and empty from, to and payload.
C24_UnknownTagDecodesToEmptyError ==
    (/\ hist.stage = "decoded"
     /\ hist.j.object
     /\ hist.j.members.type.kind = "string"
     /\ hist.j.members.type.s \notin WireTags
     /\ hist.j.members.payload.kind # "number")
        => /\ ~hist.msg.throws
           /\ hist.msg.type = "Error"
           /\ hist.msg.from = "" /\ hist.msg.to = "" /\ hist.msg.payload = ""

\* C28: the two endpoints of every pair of the relay graph are different
\* identities.
C28_PairEndpointsDistinct ==
    \A p \in relayConnections : p.peer1 # p.peer2

\* C29: when the close handler of a socket bound to X runs while the other
\* endpoint Y of one of X's pairs is bound to another socket that has closed
\* but whose own close handler has not run yet, the handler still removes every
\* pair that contains X and X's directory entry, and still notifies every
\* other endpoint that is bound to an open socket.
C29_CleanupSurvivesFailedWrite ==
    [][\A c \in Conns :
          (/\ OnClosed(c) /\ clientId[c] # ""
           /\ \E p \in relayConnections :
                 /\ Contains(p, clientId[c]) /\ GetOther(p, clientId[c]) # clientId[c]
                 /\ Registered(GetOther(p, clientId[c]))
                 /\ clients[GetOther(p, clientId[c])].ws # c
                 /\ sock[clients[GetOther(p, clientId[c])].ws] = "closed")
             => /\ \A p \in relayConnections' : ~Contains(p, clientId[c])
                /\ clientId[c] \notin DOMAIN clients'
                /\ \A p \in relayConnections :
                      (/\ Contains(p, clientId[c]) /\ Registered(GetOther(p, clientId[c]))
                       /\ sock'[clients[GetOther(p, clientId[c])].ws] = "open")
                         => \E i \in 1..Len(sent') :
                               /\ sent'[i].type = "relay_disconnect"
                               /\ sent'[i].to = GetOther(p, clientId[c])]_vars

\* ---------------------------------------------- relay_disconnect, observed

\* The state handleRelayDisconnect found when the observed frame arrived:
\* the socket, the name in the frame's `to`, and the hub's collections.
DisconnectRecord(c, msg) ==
    [c |-> c, to |-> msg.to, from |-> clientId[c], pairs |-> relayConnections,
     clients |-> clients, clientId |-> clientId, sock |-> sock]

\* handleRelayDisconnect on the observed frame; the run ends with it.
ObservedRelayDisconnect(c, msg) ==
    /\ hist = <<>>
    /\ HandleRelayDisconnect(c, msg)
    /\ hist' = DisconnectRecord(c, msg)

InitDisconnect == HubInit /\ hist = <<>>

NextDisconnect ==
    \E c \in Conns :
        \/ hist = <<>> /\ NewClient(c) /\ UNCHANGED hist
        \/ \E msg \in RegisterFrames : hist = <<>> /\ HandleRegister(c, msg) /\ UNCHANGED hist
        \/ \E msg \in PeerListFrames : hist = <<>> /\ HandlePeerList(c, msg) /\ UNCHANGED hist
        \/ \E msg \in SignalingFrames : hist = <<>> /\ HandleSignaling(c, msg) /\ UNCHANGED hist
        \/ \E msg \in RelayAuthFrames : hist = <<>> /\ HandleRelayAuth(c, msg) /\ UNCHANGED hist
        \/ \E msg \in RelayConnectFrames : hist = <<>> /\ HandleRelayConnect(c, msg) /\ UNCHANGED hist
        \/ \E msg \in RelayDataFrames : hist = <<>> /\ HandleRelayData(c, msg) /\ UNCHANGED hist
        \/ \E msg \in RelayDisconnectFrames :
              hist = <<>> /\ HandleRelayDisconnect(c, msg) /\ UNCHANGED hist
        \/ \E msg \in RelayDisconnectFrames : ObservedRelayDisconnect(c, msg)
        \/ \E msg \in OtherFrames : hist = <<>> /\ HandleOther(c, msg) /\ UNCHANGED hist
        \/ hist = <<>> /\ HandleMalformed(c) /\ UNCHANGED hist
        \/ hist = <<>> /\ SocketClose(c) /\ UNCHANGED hist
        \/ hist = <<>> /\ OnClosed(c) /\ UNCHANGED hist

SpecDisconnect == InitDisconnect /\ [][NextDisconnect]_vars

\* The effects of the observed relay_disconnect that do not depend on the
\* state of the target's socket: only the pair {X, Y} may have left the relay
\* graph, the directory (with its relayAuthenticated flags) and the socket
\* bindings are as before, and no frame other than a relay_disconnect stamped
\* with X and addressed to the socket of Y's directory entry was written.
RelayDisconnectFrameEffect ==
    /\ relayConnections \subseteq hist.pairs
    /\ \A p \in hist.pairs \ relayConnections :
          {p.peer1, p.peer2} = {hist.from, hist.to}
    /\ ~InGraph(hist.from, hist.to)
    /\ clients = hist.clients /\ clientId = hist.clientId /\ sock = hist.sock
    /\ \A i \in 1..Len(sent) :
          /\ sent[i].type = "relay_disconnect"
          /\ sent[i].from = hist.from
          /\ sent[i].to = hist.to
          /\ hist.to \in DOMAIN hist.clients
          /\ sent[i].dst = hist.clients[hist.to].ws

\* C30 as stated: handling relay_disconnect from X naming Y removes at most
\* the pair {X,Y}, changes no other pair, directory entry or flag, emits no
\* error, and writes relay_disconnect with from = X to Y exactly when Y is a
\* directory key.
C30_DisconnectNotifiesIffRegistered ==
    hist # <<>> =>
        /\ RelayDisconnectFrameEffect
        /\ (sent # <<>>) <=> (hist.to \in DOMAIN hist.clients)

\* C30 amended: as above, with relay_disconnect written to Y exactly when Y
\* is a directory key whose entry is bound to an open socket.
C30_DisconnectNotifiesIffReachable ==
    hist # <<>> =>
        /\ RelayDisconnectFrameEffect
        /\ (sent # <<>>) <=>
              /\ hist.to \in DOMAIN hist.clients
              /\ hist.sock[hist.clients[hist.to].ws] = "open"

\* A relay_disconnect from X naming another identity Y has been handled while
\* {X, Y} was one of several pairs: Y was notified and the other pairs remain.
C30_Witness ==
    /\ hist # <<>>
    /\ hist.from # hist.to
    /\ \E p \in hist.pairs : {p.peer1, p.peer2} = {hist.from, hist.to}
    /\ relayConnections # {}
    /\ sent # <<>>

\* ------------------------------------------------------- the client actor
\* P2PClientImpl on the far end of the hub's socket ClientConn.  Its fields
\* are kept in hist; the hub handles the frames it sends through the handlers
\* above, and the frames the hub writes to ClientConn reach its onMessage.

ClientConn == 1

PeerConn == 2

\* Frames in flight per direction between the client and the hub, beyond
\* the register frame of the open callback.
MaxQueue == 1

\* The last step was not a connectToPeerViaRelay call.
NoCall ==
    [op |-> "none", id |-> "", ret |-> FALSE, threw |-> FALSE, auth |-> FALSE,
     wrote |-> FALSE, fired |-> FALSE, peersBefore |-> {}, peersAfter |-> {}]

\* P2PClientImpl's constructor: state_ Disconnected, relayState_
\* NotAuthenticated, no socket, localId_ and relayPeers_ empty.
ClientInit(peerId) ==
    [state |-> "Disconnected", relayState |-> "NotAuthenticated",
     localId |-> "", peerId |-> peerId, relayPeers |-> {},
     ws |-> "none", closedBy |-> "none", pending |-> "none",
     opening |-> FALSE, expired |-> FALSE,
     toHub |-> <<>>, inbox |-> <<>>, call |-> NoCall]

InitClient ==
    /\ HubInit
    /\ \E peerId \in RequestIds : hist = ClientInit(peerId)

\* The client's record once the outcome of the last call is forgotten.
Quiet == [hist EXCEPT !.call = NoCall]

\* ws_->isOpen()
WsIsOpen == hist.ws = "open"

\* isConnected()
IsConnected == hist.state = "Connected" /\ WsIsOpen

\* isRelayAuthenticated()
IsRelayAuthenticated == hist.relayState = "Authenticated"

\* connect(), up to ws_->open(url): Connecting, a socket under way.
ClientConnect ==
    /\ hist.pending = "none" /\ hist.ws = "none" /\ hist.state = "Disconnected"
    /\ hist' = [Quiet EXCEPT !.state = "Connecting", !.ws = "connecting",
                            !.pending = "connect"]
    /\ UNCHANGED hubVars

\* The hub accepts the client's connection (onClient).
HubAccept ==
    /\ hist.ws = "connecting"
    /\ NewClient(ClientConn)
    /\ hist' = Quiet

\* ws_->onOpen, first statement: setState(Connected).  state_ is atomic and
\* read by the application thread without a lock, so the callback can be
\* overtaken between this statement and the next.
ClientOnOpen ==
    /\ hist.ws = "connecting" /\ sock[ClientConn] # "none"
    /\ hist' = [Quiet EXCEPT !.ws = "open", !.state = "Connected", !.opening = TRUE]
    /\ UNCHANGED hubVars

\* ws_->onOpen, second statement: the register frame is sent (the send throws
\* into the callback if the socket has been lost meanwhile).
ClientOnOpenRegister ==
    /\ hist.opening
    /\ hist' = [Quiet EXCEPT !.opening = FALSE,
                             !.toHub = IF WsIsOpen
                                       THEN Append(@, Msg("register", "", "", hist.peerId))
                                       ELSE @]
    /\ UNCHANGED hubVars

\* ws_->onError: setState(Failed).
ClientOnError ==
    /\ hist.ws = "connecting" /\ sock[ClientConn] = "none"
    /\ hist' = [Quiet EXCEPT !.ws = "failed", !.state = "Failed"]
    /\ UNCHANGED hubVars

\* connect()'s wait loop runs out: setState(Failed), return false.
ClientConnectTimeout ==
    /\ hist.pending = "connect" /\ hist.state = "Connecting"
    /\ hist' = [Quiet EXCEPT !.state = "Failed", !.pending = "none"]
    /\ UNCHANGED hubVars

\* connect() leaves its wait loop: return state_ == Connected.
ClientConnectReturn ==
    /\ hist.pending = "connect" /\ hist.state # "Connecting"
    /\ hist' = [Quiet EXCEPT !.pending = "none"]
    /\ UNCHANGED hubVars

\* The signaling socket is lost (closed by the hub or the network): isOpen()
\* is false from now on, the close callback has not run yet.
ClientSocketLost ==
    /\ hist.ws = "open"
    /\ hist' = [Quiet EXCEPT !.ws = "lost", !.closedBy = "peer"]
    /\ UNCHANGED hubVars

\* ws_->onClosed: setState(Disconnected), setRelayState(NotAuthenticated).
ClientOnClosed ==
    /\ hist.ws = "lost"
    /\ hist' = [Quiet EXCEPT !.ws = "closed", !.state = "Disconnected",
                            !.relayState = "NotAuthenticated"]
    /\ UNCHANGED hubVars

\* disconnect(): relayPeers_ cleared, the socket closed if it is open, both
\* states reset.
ClientDisconnect ==
    /\ hist.pending = "none" /\ hist.ws \in {"open", "lost"}
    /\ hist' = [Quiet EXCEPT !.relayPeers = {},
                            !.ws = IF WsIsOpen THEN "lost" ELSE @,
                            !.closedBy = IF WsIsOpen THEN "local" ELSE @,
                            !.state = "Disconnected",
                            !.relayState = "NotAuthenticated"]
    /\ UNCHANGED hubVars

\* authenticateRelay(password), up to the wait loop.
ClientAuthenticateRelay(password) ==
    /\ hist.pending = "none" /\ hist.ws # "none"
    /\ IF ~IsConnected
       THEN hist' = Quiet
       ELSE /\ Len(hist.toHub) < MaxQueue
            /\ hist' = [Quiet EXCEPT !.relayState = "Authenticating",
                                    !.pending = "auth", !.expired = FALSE,
                                    !.toHub = Append(@, Msg("relay_auth", hist.localId,
                                                            "", password))]
    /\ UNCHANGED hubVars

\* authenticateRelay's wait loop runs out: AuthFailed, return false.
ClientAuthTimeout ==
    /\ hist.pending = "auth" /\ hist.relayState = "Authenticating"
    /\ hist' = [Quiet EXCEPT !.relayState = "AuthFailed", !.pending = "none",
                             !.expired = TRUE]
    /\ UNCHANGED hubVars

\* authenticateRelay leaves its wait loop: return relayState_ == Authenticated.
ClientAuthReturn ==
    /\ hist.pending = "auth" /\ hist.relayState # "Authenticating"
    /\ hist' = [Quiet EXCEPT !.pending = "none"]
    /\ UNCHANGED hubVars

\* What one call of connectToPeerViaRelay(id) did.
RelayConnectCall(id, ret, thrown, wrote, after) ==
    [op |-> "connectToPeerViaRelay", id |-> id, ret |-> ret, threw |-> thrown,
     auth |-> IsRelayAuthenticated, wrote |-> wrote, fired |-> wrote,
     peersBefore |-> hist.relayPeers, peersAfter |-> after]

\* connectToPeerViaRelay(id): refused unless Authenticated; otherwise the
\* relay_connect frame is written (ws_->send throws on a socket that is not
\* open, before anything else is done), id joins relayPeers_, onRelayConnected_
\* fires, true is returned.
ConnectToPeerViaRelay(id) ==
    /\ hist.pending = "none" /\ hist.ws # "none"
    /\ IF ~IsRelayAuthenticated
       THEN hist' = [hist EXCEPT !.call = RelayConnectCall(id, FALSE, FALSE, FALSE,
                                                           hist.relayPeers)]
       ELSE IF ~WsIsOpen
       THEN hist' = [hist EXCEPT !.call = RelayConnectCall(id, FALSE, TRUE, FALSE,
                                                           hist.relayPeers)]
       ELSE /\ Len(hist.toHub) < MaxQueue
            /\ hist' = [hist EXCEPT
                           !.toHub = Append(@, Msg("relay_connect", hist.localId, id, "")),
                           !.relayPeers = @ \cup {id},
                           !.call = RelayConnectCall(id, TRUE, FALSE, TRUE,
                                                     hist.relayPeers \cup {id})]
    /\ UNCHANGED hubVars

\* What one call of sendTextViaRelay or sendBinaryViaRelay to id did.
RelaySendCall(op, id, ret, wrote) ==
    [op |-> op, id |-> id, ret |-> ret, threw |-> FALSE,
     auth |-> IsRelayAuthenticated, wrote |-> wrote, fired |-> FALSE,
     peersBefore |-> hist.relayPeers, peersAfter |-> hist.relayPeers]

\* A send that is refused only when id is not in relayPeers_.
SendViaRelayToKnownPeer(op, id, payload) ==
    /\ hist.pending = "none" /\ hist.ws # "none"
    /\ IF id \notin hist.relayPeers \/ ~WsIsOpen
       THEN hist' = [hist EXCEPT !.call = RelaySendCall(op, id, FALSE, FALSE)]
       ELSE /\ Len(hist.toHub) < MaxQueue
            /\ hist' = [hist EXCEPT
                           !.toHub = Append(@, Msg("relay_data", hist.localId, id, payload)),
                           !.call = RelaySendCall(op, id, TRUE, TRUE)]
    /\ UNCHANGED hubVars

\* sendTextViaRelay / sendBinaryViaRelay: refused unless Authenticated;
\* otherwise the relay_data frame is written inside a try block, and a send
\* that throws (socket not open) is answered with false.
SendViaRelay(op, id, payload) ==
    /\ hist.pending = "none" /\ hist.ws # "none"
    /\ IF ~IsRelayAuthenticated \/ ~WsIsOpen
       THEN hist' = [hist EXCEPT !.call = RelaySendCall(op, id, FALSE, FALSE)]
       ELSE /\ Len(hist.toHub) < MaxQueue
            /\ hist' = [hist EXCEPT
                           !.toHub = Append(@, Msg("relay_data", hist.localId, id, payload)),
                           !.call = RelaySendCall(op, id, TRUE, TRUE)]
    /\ UNCHANGED hubVars

\* sendTextViaRelay(id, message): the payload is the text record.
ClientSendTextViaRelay(id) ==
    SendViaRelay("sendTextViaRelay", id, [is_binary |-> FALSE, data |-> "x"])

\* sendBinaryViaRelay(id, data): the payload is the base64 record.
ClientSendBinaryViaRelay(id) ==
    SendViaRelay("sendBinaryViaRelay", id, RelayDataRecord(<<1>>))

\* handleRelayAuthResult
AfterRelayAuthResult(cl, f) ==
    [cl EXCEPT !.relayState = IF f.payload.success THEN "Authenticated" ELSE "AuthFailed"]

\* handleSignalingMessage on one frame from the hub.
AfterSignalingMessage(cl, f) ==
    IF f.type = "register"
    THEN [cl EXCEPT !.localId = f.payload,
                    !.toHub = Append(@, Msg("peer_list", "", "", ""))]
    ELSE IF f.type = "relay_auth_result" THEN AfterRelayAuthResult(cl, f)
    ELSE IF f.type = "relay_connect" THEN [cl EXCEPT !.relayPeers = @ \cup {f.from}]
    ELSE IF f.type = "relay_disconnect" THEN [cl EXCEPT !.relayPeers = @ \ {f.from}]
    ELSE cl

\* ws_->onMessage on the oldest frame the hub wrote to the client's socket.
ClientOnMessage ==
    /\ WsIsOpen /\ hist.inbox # <<>>
    /\ Head(hist.inbox).type = "register" => Len(hist.toHub) < MaxQueue
    /\ hist' = AfterSignalingMessage([Quiet EXCEPT !.inbox = Tail(@)], Head(hist.inbox))
    /\ UNCHANGED hubVars

\* The frames of one hub callback that were written to the client's socket.
ToClient(frames) == SelectSeq(frames, LAMBDA f : f.dst = ClientConn)

\* The client's record after the hub has taken its oldest frame and written
\* the frames of `out`.
Delivered(out) ==
    [Quiet EXCEPT !.toHub = Tail(@), !.inbox = @ \o ToClient(out)]

\* The hub's onMessage for the oldest frame the client sent.
HubOnMessage ==
    /\ hist.toHub # <<>> /\ Len(hist.inbox) < MaxQueue
    /\ LET msg == Head(hist.toHub)
       IN  \/ HandleRegister(ClientConn, msg)
           \/ HandlePeerList(ClientConn, msg)
           \/ HandleRelayAuth(ClientConn, msg)
           \/ HandleRelayConnect(ClientConn, msg)
    /\ hist' = Delivered(sent')

\* The hub's end of the connection is closed: what the client sent is lost.
HubSocketClose ==
    /\ SocketClose(ClientConn)
    /\ hist' = [Quiet EXCEPT !.toHub = <<>>]

\* A peer on the hub's other socket: it connects and registers.
PeerRegisters ==
    \/ NewClient(PeerConn) /\ hist' = Quiet
    \/ \E msg \in RegisterFrames :
          /\ clientId[PeerConn] = ""
          /\ HandleRegister(PeerConn, msg)
          /\ hist' = Quiet

NextClient ==
    \/ ClientConnect
    \/ HubAccept
    \/ ClientOnOpen
    \/ ClientOnOpenRegister
    \/ ClientOnError
    \/ ClientConnectTimeout
    \/ ClientConnectReturn
    \/ ClientSocketLost
    \/ ClientOnClosed
    \/ ClientDisconnect
    \/ \E password \in {Secret, "bad"} : ClientAuthenticateRelay(password)
    \/ ClientAuthTimeout
    \/ ClientAuthReturn
    \/ \E id \in ToIds \ {""} : ConnectToPeerViaRelay(id)
    \/ ClientOnMessage
    \/ HubOnMessage
    \/ HubSocketClose
    \/ OnClosed(ClientConn) /\ hist' = Quiet
    \/ PeerRegisters

SpecClient == InitClient /\ [][NextClient]_vars

\* C25: whenever the client's connection state is Connected, the hub has
\* assigned an identity to the client's connection and localId_ is that
\* identity.
C25_ConnectedMeansRegistered ==
    hist.state = "Connected" =>
        /\ clientId[ClientConn] # ""
        /\ hist.localId = clientId[ClientConn]

\* C26: once the close callback has run for a signaling socket that was lost
\* (not closed by disconnect()), the connection state is not Connected, the
\* relay state is not Authenticated and relayPeers_ is empty.
C26_LossClearsRelayPeers ==
    (hist.ws = "closed" /\ hist.closedBy = "peer") =>
        /\ hist.state # "Connected"
        /\ hist.relayState # "Authenticated"
        /\ hist.relayPeers = {}

\* C27: a connectToPeerViaRelay(id) made while relayState_ is not
\* Authenticated returns false, writes no frame, leaves relayPeers_ as it was
\* and fires no callback; one made while it is Authenticated writes
\* relay_connect, puts id into relayPeers_, fires onRelayConnected_(id) and
\* returns true.
C27_RelayConnectNeedsAuthentication ==
    hist.call.op = "connectToPeerViaRelay" =>
        IF hist.call.auth
        THEN /\ hist.call.wrote /\ hist.call.fired /\ hist.call.ret
             /\ hist.call.id \in hist.call.peersAfter
        ELSE /\ ~hist.call.ret /\ ~hist.call.wrote /\ ~hist.call.fired
             /\ ~hist.call.threw
             /\ hist.call.peersAfter = hist.call.peersBefore

\* ----------------------------------- frames of a pair's responder, observed

\* Socket c is the responder B of a pair {A, B}: it owns its directory entry,
\* its relayAuthenticated flag is false, the pair with msg.to is in the relay
\* graph and the connection of msg.to is open.
UnauthenticatedResponder(c, to) ==
    /\ OwnsEntry(c) /\ ~clients[clientId[c]].relayAuthenticated
    /\ to # clientId[c]
    /\ InGraph(clientId[c], to)
    /\ Registered(to) /\ sock[clients[to].ws] = "open"

\* What handleMessage found when the observed frame arrived.
ResponderRecord(c, msg) ==
    [c |-> c, type |-> msg.type, to |-> msg.to, payload |-> msg.payload,
     from |-> clientId[c], pairs |-> relayConnections,
     toWs |-> IF Registered(msg.to) THEN clients[msg.to].ws ELSE 0]

\* handleRelayData on a frame of the responder; the run ends with it.
ObservedResponderData(c, msg) ==
    /\ hist = <<>>
    /\ UnauthenticatedResponder(c, msg.to)
    /\ HandleRelayData(c, msg)
    /\ hist' = ResponderRecord(c, msg)

\* handleRelayConnect on a frame of the responder of some pair; the run ends
\* with it.
ObservedResponderConnect(c, msg) ==
    /\ hist = <<>>
    /\ \E a \in ToIds : UnauthenticatedResponder(c, a)
    /\ HandleRelayConnect(c, msg)
    /\ hist' = ResponderRecord(c, msg)

InitResponder == HubInit /\ hist = <<>>

NextResponder ==
    \E c \in Conns :
        \/ hist = <<>> /\ NewClient(c) /\ UNCHANGED hist
        \/ \E msg \in RegisterFrames : hist = <<>> /\ HandleRegister(c, msg) /\ UNCHANGED hist
        \/ \E msg \in PeerListFrames : hist = <<>> /\ HandlePeerList(c, msg) /\ UNCHANGED hist
        \/ \E msg \in SignalingFrames : hist = <<>> /\ HandleSignaling(c, msg) /\ UNCHANGED hist
        \/ \E msg \in RelayAuthFrames : hist = <<>> /\ HandleRelayAuth(c, msg) /\ UNCHANGED hist
        \/ \E msg \in RelayConnectFrames : hist = <<>> /\ HandleRelayConnect(c, msg) /\ UNCHANGED hist
        \/ \E msg \in RelayConnectFrames : ObservedResponderConnect(c, msg)
        \/ \E msg \in RelayDataFrames : hist = <<>> /\ HandleRelayData(c, msg) /\ UNCHANGED hist
        \/ \E msg \in RelayDataFrames : ObservedResponderData(c, msg)
        \/ \E msg \in RelayDisconnectFrames :
              hist = <<>> /\ HandleRelayDisconnect(c, msg) /\ UNCHANGED hist
        \/ \E msg \in OtherFrames : hist = <<>> /\ HandleOther(c, msg) /\ UNCHANGED hist
        \/ hist = <<>> /\ HandleMalformed(c) /\ UNCHANGED hist
        \/ hist = <<>> /\ SocketClose(c) /\ UNCHANGED hist
        \/ hist = <<>> /\ OnClosed(c) /\ UNCHANGED hist

SpecResponder == InitResponder /\ [][NextResponder]_vars

\* C31: for a pair {A, B} whose responder B is a connection with
\* relayAuthenticated false, a relay_data frame of B naming A is forwarded to
\* A's connection with from = B and the payload unchanged, and a
\* relay_connect frame of B, whatever identity it names, adds nothing to the
\* relay graph and notifies nobody of a relay connection.
C31_ResponderSendsDataNotConnect ==
    hist # <<>> =>
        /\ hist.type = "relay_data" =>
              sent = <<Frame(hist.c, hist.toWs, "relay_data", hist.from, hist.to,
                             hist.payload)>>
        /\ hist.type = "relay_connect" =>
              /\ relayConnections = hist.pairs
              /\ \A i \in 1..Len(sent) : sent[i].type = "error" /\ sent[i].dst = hist.c

\* The responder's relay_data has been forwarded to the other endpoint.
C31_Witness ==
    /\ hist # <<>> /\ hist.type = "relay_data"
    /\ sent # <<>> /\ sent[1].type = "relay_data" /\ sent[1].dst # hist.c

\* ------------------------------------- frames that carry no state, observed

\* The directory (with its relayAuthenticated flags), the relay graph and the
\* socket bindings handleMessage found when the observed frame arrived, and
\* whether the frame's type is one the switch handles.
StatelessRecord(msg) ==
    [handled |-> msg.type \notin OtherTypes, clients |-> clients,
     pairs |-> relayConnections, clientId |-> clientId]

\* handleMessage on an observed offer, answer, candidate, peer_list or
\* relay_data frame, or on a frame of a type the switch sends to `default`;
\* the run ends with it.
ObservedStateless(c) ==
    /\ hist = <<>>
    /\ \/ \E msg \in SignalingFrames : HandleSignaling(c, msg) /\ hist' = StatelessRecord(msg)
       \/ \E msg \in PeerListFrames : HandlePeerList(c, msg) /\ hist' = StatelessRecord(msg)
       \/ \E msg \in RelayDataFrames : HandleRelayData(c, msg) /\ hist' = StatelessRecord(msg)
       \/ \E msg \in OtherFrames : HandleOther(c, msg) /\ hist' = StatelessRecord(msg)

InitStateless == HubInit /\ hist = <<>>

NextStateless ==
    \E c \in Conns :
        \/ hist = <<>> /\ NewClient(c) /\ UNCHANGED hist
        \/ \E msg \in RegisterFrames : hist = <<>> /\ HandleRegister(c, msg) /\ UNCHANGED hist
        \/ \E msg \in PeerListFrames : hist = <<>> /\ HandlePeerList(c, msg) /\ UNCHANGED hist
        \/ \E msg \in SignalingFrames : hist = <<>> /\ HandleSignaling(c, msg) /\ UNCHANGED hist
        \/ \E msg \in RelayAuthFrames : hist = <<>> /\ HandleRelayAuth(c, msg) /\ UNCHANGED hist
        \/ \E msg \in RelayConnectFrames : hist = <<>> /\ HandleRelayConnect(c, msg) /\ UNCHANGED hist
        \/ \E msg \in RelayDataFrames : hist = <<>> /\ HandleRelayData(c, msg) /\ UNCHANGED hist
        \/ \E msg \in RelayDisconnectFrames :
              hist = <<>> /\ HandleRelayDisconnect(c, msg) /\ UNCHANGED hist
        \/ \E msg \in OtherFrames : hist = <<>> /\ HandleOther(c, msg) /\ UNCHANGED hist
        \/ hist = <<>> /\ HandleMalformed(c) /\ UNCHANGED hist
        \/ hist = <<>> /\ SocketClose(c) /\ UNCHANGED hist
        \/ hist = <<>> /\ OnClosed(c) /\ UNCHANGED hist
        \/ ObservedStateless(c)

SpecStateless == InitStateless /\ [][NextStateless]_vars

\* C32: after an offer, answer, candidate, peer_list or relay_data frame, or
\* a frame of a type the hub does not handle, the directory, every
\* relayAuthenticated flag, the relay graph and the socket bindings are what
\* they were before it; after a frame of an unhandled type no frame has been
\* written either.
C32_StatelessFrames ==
    hist # <<>> =>
        /\ clients = hist.clients
        /\ relayConnections = hist.pairs
        /\ clientId = hist.clientId
        /\ ~hist.handled => (sent = <<>> /\ ~threw)

\* A frame of an unhandled type has been dropped by a hub that holds a
\* directory and a relay graph.
C32_Witness ==
    /\ hist # <<>> /\ ~hist.handled
    /\ hist.clients # <<>> /\ hist.pairs # {}

\* C33: a step that writes a peer_list frame is the handling of a peer_list
\* request of the socket the frame is written to; no other callback
\* (register, close, any other frame) writes one.
C33_PeerListOnlyOnRequest ==
    [][\A i \in 1..Len(sent') :
          sent'[i].type = "peer_list" =>
             \E msg \in PeerListFrames : HandlePeerList(sent'[i].dst, msg)]_vars

\* C33 witness: a socket has just been answered its peer_list request while
\* another registered socket is open and has received nothing.
C33_Witness ==
    /\ Len(sent) = 1 /\ sent[1].type = "peer_list"
    /\ \E d \in Conns : d # sent[1].dst /\ sock[d] = "open" /\ clientId[d] # ""

\* C34: the close handler of socket c removes from the directory only entries
\* bound to c, and from the relay graph only pairs none of whose endpoints is
\* the entry of another socket that is still open.
C34_CloseEvictsOwnEntryOnly ==
    [][\A c \in Conns :
          OnClosed(c) =>
             /\ \A id \in DOMAIN clients \ DOMAIN clients' : clients[id].ws = c
             /\ \A p \in relayConnections \ relayConnections' :
                   \A id \in {p.peer1, p.peer2} :
                      (Registered(id) /\ clients[id].ws # c /\ sock[clients[id].ws] = "open")
                         => GetOther(p, id) \in DOMAIN clients
                            /\ clients[GetOther(p, id)].ws = c]_vars

\* ------------------------------------------- relay_data after relay_connect

\* An observer keeps, in hist.lic, for each connection y the identities x it
\* may receive relay_data from: [y, yid, x] is added when the hub writes a
\* relay_connect with from = x and to = yid to y, or when the hub accepts a
\* relay_connect naming x from y (then bound to yid), and is dropped when the
\* pair {x, yid} leaves the relay graph.  hist.bad records a relay_data frame
\* written to a connection that holds no such entry; the run ends with it.

NoFrame == Msg("", "", "", "")

\* handleRelayConnect accepts the frame: both checks pass and the pair is
\* inserted.
ConnectAccepted(c, msg) ==
    /\ msg.type = "relay_connect"
    /\ SenderAuthenticated(clientId[c]) /\ Registered(msg.to)

\* The entries the callback of socket c for msg adds.
Granted(c, msg) ==
    (IF ConnectAccepted(c, msg)
     THEN {[y |-> c, yid |-> clientId[c], x |-> msg.to]}
     ELSE {})
    \cup {[y |-> sent'[i].dst, yid |-> sent'[i].to, x |-> sent'[i].from] :
             i \in {j \in 1..Len(sent') : sent'[j].type = "relay_connect"}}

\* The entries whose pair the callback removed from the relay graph.
Dropped ==
    {l \in hist.lic : \E p \in relayConnections \ relayConnections' :
                         {p.peer1, p.peer2} = {l.yid, l.x}}

\* A relay_data frame was written to a connection with no entry for its sender.
Unannounced ==
    \E i \in 1..Len(sent') :
        /\ sent'[i].type = "relay_data"
        /\ [y |-> sent'[i].dst, yid |-> sent'[i].to, x |-> sent'[i].from] \notin hist.lic

\* The observer's record after the callback of socket c for msg.
Announced(c, msg) ==
    [lic |-> (hist.lic \ Dropped) \cup Granted(c, msg), bad |-> Unannounced]

InitAnnounce == HubInit /\ hist = [lic |-> {}, bad |-> FALSE]

NextAnnounce ==
    \E c \in Conns :
        \/ ~hist.bad /\ NewClient(c) /\ UNCHANGED hist
        \/ \E msg \in RegisterFrames : ~hist.bad /\ HandleRegister(c, msg) /\ UNCHANGED hist
        \/ \E msg \in RelayAuthFrames : ~hist.bad /\ HandleRelayAuth(c, msg) /\ UNCHANGED hist
        \/ \E msg \in RunFrames(RelayConnectFrames) :
              ~hist.bad /\ HandleRelayConnect(c, msg) /\ hist' = Announced(c, msg)
        \/ \E msg \in RunFrames(RelayDataFrames) :
              ~hist.bad /\ HandleRelayData(c, msg) /\ hist' = Announced(c, msg)
        \/ \E msg \in RunFrames(RelayDisconnectFrames) :
              ~hist.bad /\ HandleRelayDisconnect(c, msg) /\ hist' = Announced(c, msg)
        \/ ~hist.bad /\ SocketClose(c) /\ UNCHANGED hist
        \/ ~hist.bad /\ OnClosed(c) /\ hist' = Announced(c, NoFrame)

SpecAnnounce == InitAnnounce /\ [][NextAnnounce]_vars

\* C39: a relay_data frame with from = X is written to a connection only if
\* that connection was written a relay_connect with from = X, or had a
\* relay_connect naming X accepted, and the pair has not left the relay graph
\* since.
C39_DataAfterConnect == ~hist.bad

\* C35: whenever the client's relay state is Authenticated and its signaling
\* socket is open, the hub holds a directory entry bound to the client's
\* connection whose relayAuthenticated flag is true.
C35_AuthenticatedOnBothSides ==
    (IsRelayAuthenticated /\ WsIsOpen) => ConnAuthenticated(ClientConn)

\* C36: from the expiry of authenticateRelay's wait until the next
\* authenticateRelay, the client's relay state is not Authenticated.
C36_ExpiredStaysFailed ==
    hist.expired => ~IsRelayAuthenticated

\* C37: when the client is connected, registered and authenticated on both
\* sides (by an authenticateRelay that did not expire), its socket and the hub's are open and no frame is in flight in
\* either direction, every identity in relayPeers_ is paired with the
\* client's identity in the hub's relay graph.
C37_RelayPeersAgreeWithHub ==
    (/\ IsConnected /\ ~hist.opening /\ sock[ClientConn] = "open"
     /\ hist.toHub = <<>> /\ hist.inbox = <<>>
     /\ hist.localId # "" /\ hist.localId = clientId[ClientConn]
     /\ IsRelayAuthenticated /\ ~hist.expired /\ ConnAuthenticated(ClientConn))
        => \A id \in hist.relayPeers : InGraph(hist.localId, id)

\* ---------------------------------------------------------------------
\* The client's relay sends, with a peer that can originate a relay pair.
\* The client connects, registers and authenticates as in SpecClient; the
\* peer registers, authenticates and sends relay_connect on its own socket.

\* The peer authenticates for relay and sends relay_connect; what the hub
\* writes to the client's socket reaches the client.
PeerRelays ==
    /\ Len(hist.inbox) < MaxQueue
    /\ \/ HandleRelayAuth(PeerConn, Msg("relay_auth", "", "", Secret))
       \/ \E id \in ToIds \ {""} : HandleRelayConnect(PeerConn, Msg("relay_connect", "", id, ""))
    /\ hist' = [Quiet EXCEPT !.inbox = @ \o ToClient(sent')]

\* The hub reads the next frame the client wrote before the observed send.
HubOnMessageRelay ==
    /\ hist.toHub # <<>> /\ sock[ClientConn] = "open"
    /\ LET msg == Head(hist.toHub) IN
           \/ HandleRegister(ClientConn, msg)
           \/ HandlePeerList(ClientConn, msg)
           \/ HandleRelayAuth(ClientConn, msg)
    /\ hist' = Delivered(sent')

\* No send has been observed yet; the run ends with the observed send.
NoSendYet == hist.call.op \notin {"sendTextViaRelay", "sendBinaryViaRelay"}

NextSend ==
    \/ NoSendYet /\ ClientConnect
    \/ NoSendYet /\ HubAccept
    \/ NoSendYet /\ ClientOnOpen
    \/ NoSendYet /\ ClientOnOpenRegister
    \/ NoSendYet /\ ClientConnectReturn
    \/ NoSendYet /\ ClientSocketLost
    \/ \E pw \in Passwords : NoSendYet /\ ClientAuthenticateRelay(pw)
    \/ NoSendYet /\ ClientAuthReturn
    \/ NoSendYet /\ ClientOnMessage
    \/ NoSendYet /\ HubOnMessageRelay
    \/ NoSendYet /\ PeerRegisters
    \/ NoSendYet /\ PeerRelays
    \/ \E id \in ToIds \ {""} : NoSendYet /\ ClientSendTextViaRelay(id)
    \/ \E id \in ToIds \ {""} : NoSendYet /\ ClientSendBinaryViaRelay(id)

SpecSend == InitClient /\ [][NextSend]_vars

\* C40: a sendTextViaRelay or sendBinaryViaRelay made while relayState_ is not
\* Authenticated returns false and writes no frame, whether or not the target
\* is in relayPeers_.
C40_SendNeedsAuthentication ==
    (hist.call.op \in {"sendTextViaRelay", "sendBinaryViaRelay"} /\ ~hist.call.auth)
        => /\ ~hist.call.ret /\ ~hist.call.wrote
           /\ \A i \in 1..Len(hist.toHub) : hist.toHub[i].type # "relay_data"

\* A send to a peer that joined relayPeers_ through the peer's own
\* relay_connect has been refused because the client is not authenticated.
C40_Witness ==
    /\ hist.call.op = "sendBinaryViaRelay" /\ ~hist.call.auth /\ ~hist.call.ret
    /\ hist.call.id \in hist.relayPeers
    /\ WsIsOpen /\ InGraph(hist.localId, hist.call.id)

\* ---------------------------------------------------------------------
\* broadcastTextViaRelay / broadcastBinaryViaRelay on the application
\* thread, with the websocket thread's handlers running beside it.  The
\* client is connected; here hist holds relayState_, relayPeers_ and the
\* position of the broadcast loop.

\* Peers a relay_connect or relay_disconnect frame may name.
RelayIds == ToIds \ {""}

\* phase: "idle" before the call, "unlocked" after peerMutex_.unlock() in the
\* loop body, "sent" after the send returned, "done" after the loop,
\* "crashed" when the process died.  cur is the element the iterator is on,
\* todo the elements the iterator has not reached.  refLost: the reference
\* peerId dangles; itLost: the iterator is invalid.
BroadcastInit ==
    [relayState |-> "NotAuthenticated", relayPeers |-> {},
     phase |-> "idle", kind |-> "none", start |-> {}, cur |-> "", todo |-> {},
     refLost |-> FALSE, itLost |-> FALSE, touched |-> FALSE,
     called |-> {}, calledAgain |-> {}, frames |-> {}]

InitBroadcast == HubInit /\ hist = BroadcastInit

\* The loop is between unlock() and lock(): peerMutex_ is free although the
\* range-for still holds an iterator into relayPeers_.
Iterating == hist.phase \in {"unlocked", "sent"}

\* peerMutex_ is free.
MutexFree == hist.phase # "done" /\ hist.phase # "crashed"

\* lock_guard, begin(), and the unlock() that opens the first loop body.
BroadcastBegin(kind) ==
    /\ hist.phase = "idle"
    /\ IF hist.relayPeers = {}
       THEN hist' = [hist EXCEPT !.phase = "done", !.kind = kind]
       ELSE \E first \in hist.relayPeers :
               hist' = [hist EXCEPT !.phase = "unlocked", !.kind = kind,
                                    !.start = hist.relayPeers, !.cur = first,
                                    !.todo = hist.relayPeers \ {first}]
    /\ UNCHANGED hubVars

\* sendTextViaRelay(peerId, ...) or sendBinaryViaRelay(peerId, ...) in the
\* loop body: a frame is written only when Authenticated.  Reading a
\* dangling peerId is undefined: any name, or a crash.
BroadcastSend ==
    /\ hist.phase = "unlocked"
    /\ \/ \E id \in (IF hist.refLost THEN RelayIds ELSE {hist.cur}) :
             hist' = [hist EXCEPT
                        !.phase = "sent",
                        !.called = @ \cup {id},
                        !.calledAgain = IF id \in hist.called THEN @ \cup {id} ELSE @,
                        !.frames = IF hist.relayState = "Authenticated"
                                   THEN @ \cup {id} ELSE @]
       \/ hist.refLost /\ hist' = [hist EXCEPT !.phase = "crashed"]
    /\ UNCHANGED hubVars

\* peerMutex_.lock(), ++it, the loop test, and either the next unlock() or
\* the end of the loop.  Advancing an invalid iterator is undefined: the
\* loop ends, goes on at any element, or the process crashes.
BroadcastNext ==
    /\ hist.phase = "sent"
    /\ IF hist.itLost
       THEN \/ hist' = [hist EXCEPT !.phase = "crashed"]
            \/ hist' = [hist EXCEPT !.phase = "done"]
            \/ \E next \in hist.relayPeers : \E rest \in SUBSET (hist.relayPeers \ {next}) :
                  hist' = [hist EXCEPT !.phase = "unlocked", !.cur = next, !.todo = rest,
                                       !.refLost = FALSE, !.itLost = FALSE]
       ELSE IF hist.todo = {}
            THEN hist' = [hist EXCEPT !.phase = "done"]
            ELSE \E next \in hist.todo :
                    hist' = [hist EXCEPT !.phase = "unlocked", !.cur = next,
                                         !.todo = hist.todo \ {next}]
    /\ UNCHANGED hubVars

\* handleRelayConnect on the websocket thread: relayPeers_.insert(msg.from)
\* under peerMutex_.  An insert during the loop either rehashes the set,
\* which invalidates the iterator, or links the new element before or after
\* the iterator's position.
ClientHandleRelayConnect(from) ==
    /\ MutexFree
    /\ IF Iterating /\ from \notin hist.relayPeers
       THEN \/ hist' = [hist EXCEPT !.relayPeers = @ \cup {from}, !.touched = TRUE,
                                    !.itLost = TRUE]
            \/ \E reached \in BOOLEAN :
                  hist' = [hist EXCEPT !.relayPeers = @ \cup {from}, !.touched = TRUE,
                                       !.todo = IF reached THEN @ \cup {from} ELSE @]
       ELSE hist' = [hist EXCEPT !.relayPeers = @ \cup {from}]
    /\ UNCHANGED hubVars

\* handleRelayDisconnect on the websocket thread: relayPeers_.erase(msg.from)
\* under peerMutex_.  Erasing the element the loop is on invalidates both
\* the iterator and the reference peerId.
ClientHandleRelayDisconnect(from) ==
    /\ MutexFree
    /\ IF Iterating /\ from \in hist.relayPeers
       THEN hist' = [hist EXCEPT !.relayPeers = @ \ {from}, !.touched = TRUE,
                                 !.todo = @ \ {from},
                                 !.refLost = @ \/ from = hist.cur,
                                 !.itLost = @ \/ from = hist.cur]
       ELSE hist' = [hist EXCEPT !.relayPeers = @ \ {from}]
    /\ UNCHANGED hubVars

\* handleRelayAuthResult on the websocket thread.
ClientHandleRelayAuthResult(success) ==
    /\ MutexFree
    /\ hist' = [hist EXCEPT !.relayState = IF success THEN "Authenticated" ELSE "AuthFailed"]
    /\ UNCHANGED hubVars

NextBroadcast ==
    \/ BroadcastBegin("text")
    \/ BroadcastBegin("binary")
    \/ BroadcastSend
    \/ BroadcastNext
    \/ \E from \in RelayIds : ClientHandleRelayConnect(from)
    \/ \E from \in RelayIds : ClientHandleRelayDisconnect(from)
    \/ \E success \in BOOLEAN : ClientHandleRelayAuthResult(success)

SpecBroadcast == InitBroadcast /\ [][NextBroadcast]_vars

\* C38: while a broadcast iterates relayPeers_ no other thread inserts into
\* or erases from it, so a broadcast that has returned has called the send
\* exactly once for every peer that was in the set when it started.
C38_BroadcastIteratesStableSet ==
    /\ ~hist.touched
    /\ hist.phase = "done" => hist.called = hist.start /\ hist.calledAgain = {}

====
